---- MODULE Spec2Model ----
(***************************************************************************)
(* The CCP dispatch loop of portus (src/lib.rs, start()) and the control   *)
(* API that algorithm instances call from their hooks (Datapath::          *)
(* send_pattern, Datapath::install_measurement).                           *)
(*                                                                         *)
(* One loop iteration (take a frame, decode it, dispatch it, run the hooks *)
(* it calls) is one action: the loop is single threaded and the hooks run  *)
(* synchronously inside it.  The transport's receive side is the sequence  *)
(* `arrived` of all frames delivered so far; the loop has taken the first  *)
(* `head` of them.                                                         *)
(***************************************************************************)
EXTENDS Integers, Sequences, FiniteSets, TLC

\* ------------------------------------------------------------------ bounds
\* Number of frames the datapath delivers in one run.
MaxFrames == 3

\* ------------------------------------------------------- wire constants
CREATE == 0
MEASURE == 1
INSTALL_FOLD == 2
UPDATE_FIELD == 3
PATTERN == 4
RESERVED_TAG == 5

\* --------------------------------------------------------- input values
\* Flow 1 is the flow under study; flow 2 is a second flow beside it, with
\* fewer variants of its frames.
Sids == {1, 2}
CwndVals == {10, 20}
FieldVecs == {<<>>, <<100>>, <<100, 200>>}
OtherCwndVals == {10}
OtherFieldVecs == {<<>>, <<100>>}

\* A frame as the transport hands it over.  `framed` says whether the
\* header's declared length agrees with the buffer.
RawFrame(typ, framed, sid, cwnd, fields) ==
    [typ |-> typ, framed |-> framed, sid |-> sid,
     init_cwnd |-> cwnd,
     mss |-> IF typ = CREATE THEN 1448 ELSE 0,
     src_ip |-> IF typ = CREATE THEN 3 ELSE 0,
     src_port |-> IF typ = CREATE THEN 4 ELSE 0,
     dst_ip |-> IF typ = CREATE THEN 5 ELSE 0,
     dst_port |-> IF typ = CREATE THEN 6 ELSE 0,
     num_fields |-> Len(fields), fields |-> fields]

CreateFrames == {RawFrame(CREATE, TRUE, 1, c, <<>>) : c \in CwndVals}
                 \cup {RawFrame(CREATE, TRUE, 2, c, <<>>) : c \in OtherCwndVals}
MeasureFrames == {RawFrame(MEASURE, TRUE, 1, 0, f) : f \in FieldVecs}
                  \cup {RawFrame(MEASURE, TRUE, 2, 0, f) : f \in OtherFieldVecs}
DirectionFrames == {RawFrame(t, TRUE, 1, 0, <<>>) : t \in {PATTERN, INSTALL_FOLD}}
OtherFrames == {RawFrame(t, TRUE, 1, 0, <<>>) : t \in {UPDATE_FIELD, RESERVED_TAG}}
\* A Create whose declared length disagrees with the buffer.
BadFrames == {RawFrame(CREATE, FALSE, 1, 10, <<>>)}
Frames == CreateFrames \cup MeasureFrames \cup DirectionFrames \cup OtherFrames \cup BadFrames

\* ----------------------------------------------------------- decoding
\* Msg::from_buf: Err on a framing error, otherwise the variant the tag
\* selects; tags without a decoder of their own give Msg::Other.
from_buf(f) ==
    IF ~f.framed THEN [ok |-> FALSE, kind |-> "Err", m |-> f]
    ELSE [ok |-> TRUE,
          kind |-> CASE f.typ = CREATE -> "Cr"
                     [] f.typ = MEASURE -> "Ms"
                     [] f.typ = PATTERN -> "Pt"
                     [] f.typ = INSTALL_FOLD -> "Fld"
                     [] OTHER -> "Other",
          m |-> f]

\* ------------------------------------------------------------- state
VARIABLES
    arrived,   \* frames delivered by the transport's receive side, in order
    head,      \* number of frames the loop has taken from the iterator
    closed,    \* the receive side has closed
    pc,        \* "listen", "panic_direction", "panic_closed"
    flows,     \* HashMap<u32, U>: sock_id -> instance id
    algs,      \* every instance ever constructed, by id
    sent,      \* messages the transport accepted during the current iteration
    apiLog,    \* control API calls made during the current iteration
    logged,    \* records handed to cfg.logger during the current iteration
    pure       \* a call of a function outside the loop: arguments and result

vars == <<arrived, head, closed, pc, flows, algs, sent, apiLog, logged, pure>>

\* No call outside the loop is under study.
Idle == [op |-> "none", done |-> FALSE]

\* -------------------------------------------------------- HashMap ops
EmptyMap == [s \in {} |-> 0]
contains_key(map, k) == k \in DOMAIN map
remove(map, k) == [s \in (DOMAIN map) \ {k} |-> map[s]]
insert(map, k, v) == [s \in (DOMAIN map) \cup {k} |-> IF s = k THEN v ELSE map[s]]

\* ---------------------------------------------------- control API
\* What the environment decides for one API call: the first of lang::compile,
\* serialize::serialize and Backend::send_msg to fail, or "none".
Failures == {"compile", "serialize", "send", "none"}

ApiRec(w, w1, op, ctx, inst, sock_id, fail, ok) ==
    [op |-> op, ctx |-> ctx, inst |-> inst, sid |-> sock_id, fail |-> fail, ok |-> ok,
     flows0 |-> w.flows, flows1 |-> w1.flows, sent0 |-> w.sent, sent1 |-> w1.sent]

\* The call returns: `w1` is the state it leaves, `ok` whether it returns Ok.
Return(w, w1, op, ctx, inst, sock_id, fail, ok) ==
    [w1 EXCEPT !.apiLog = Append(@, ApiRec(w, w1, op, ctx, inst, sock_id, fail, ok))]

\* Backend::send_msg: the transport takes the buffer unless the send fails.
send_msg(w, msg, fail) ==
    IF fail = "send" THEN w ELSE [w EXCEPT !.sent = Append(@, msg)]

\* send_pattern as it would be with a cleanup of the flow on a failed send.
send_pattern_cleanup(w, ctx, inst, sock_id, fail) ==
    LET msg == [typ |-> PATTERN, sid |-> sock_id]
        gone == [w EXCEPT !.flows = [s \in (DOMAIN w.flows) \ {sock_id} |-> w.flows[s]]]
    IN  IF fail = "serialize"
        THEN Return(w, w, "send_pattern", ctx, inst, sock_id, fail, FALSE)
        ELSE IF fail = "send"
        THEN Return(w, gone, "send_pattern", ctx, inst, sock_id, fail, FALSE)
        ELSE Return(w, send_msg(w, msg, fail), "send_pattern", ctx, inst, sock_id, fail, TRUE)

\* send_pattern as it would be if the result of send_msg were thrown away.
send_pattern_swallow(w, ctx, inst, sock_id, fail) ==
    LET msg == [typ |-> PATTERN, sid |-> sock_id]
    IN  IF fail = "serialize"
        THEN Return(w, w, "send_pattern", ctx, inst, sock_id, fail, FALSE)
        ELSE Return(w, send_msg(w, msg, fail), "send_pattern", ctx, inst, sock_id, fail, TRUE)

\* Datapath::send_pattern
send_pattern(w, ctx, inst, sock_id, fail) ==
    LET msg == [typ |-> PATTERN, sid |-> sock_id]
    IN  IF fail = "serialize"
        THEN Return(w, w, "send_pattern", ctx, inst, sock_id, fail, FALSE)
        ELSE IF fail = "send"
        THEN Return(w, send_msg(w, msg, fail), "send_pattern", ctx, inst, sock_id, fail, FALSE)
        ELSE Return(w, send_msg(w, msg, fail), "send_pattern", ctx, inst, sock_id, fail, TRUE)

\* install_measurement as it would be if the compile result were examined
\* only after the send.
install_measurement_sendFirst(w, ctx, inst, sock_id, fail) ==
    LET msg == [typ |-> INSTALL_FOLD, sid |-> sock_id]
    IN  IF fail = "serialize"
        THEN Return(w, w, "install_measurement", ctx, inst, sock_id, fail, FALSE)
        ELSE IF fail = "send"
        THEN Return(w, send_msg(w, msg, fail), "install_measurement", ctx, inst, sock_id, fail, FALSE)
        ELSE Return(w, send_msg(w, msg, fail), "install_measurement", ctx, inst, sock_id, fail,
                    fail # "compile")

\* Datapath::install_measurement
install_measurement(w, ctx, inst, sock_id, fail) ==
    LET msg == [typ |-> INSTALL_FOLD, sid |-> sock_id]
    IN  IF fail = "compile"
        THEN Return(w, w, "install_measurement", ctx, inst, sock_id, fail, FALSE)
        ELSE IF fail = "serialize"
        THEN Return(w, w, "install_measurement", ctx, inst, sock_id, fail, FALSE)
        ELSE IF fail = "send"
        THEN Return(w, send_msg(w, msg, fail), "install_measurement", ctx, inst, sock_id, fail, FALSE)
        ELSE Return(w, send_msg(w, msg, fail), "install_measurement", ctx, inst, sock_id, fail, TRUE)

\* The calls a hook may make, as the environment's choice.
Call(op, fail) == [op |-> op, fail |-> fail]
PatternCalls == {Call("send_pattern", f) : f \in Failures \ {"compile"}}
InstallCalls == {Call("install_measurement", f) : f \in Failures}
CallScripts == {<<c>> : c \in PatternCalls \cup InstallCalls}
                \cup {<<Call("install_measurement", "none"), Call("send_pattern", "none")>>}

\* Which hook of the iteration makes calls, and which: no hook, or one hook
\* with a script.
Choices(hooks) == {<<"none", <<>>>>} \cup (hooks \X CallScripts)

RECURSIVE RunScript(_, _, _, _, _)
RunScript(w, ctx, inst, sock_id, script) ==
    IF script = <<>> THEN w
    ELSE LET c == Head(script)
             w1 == IF c.op = "send_pattern"
                   THEN send_pattern(w, ctx, inst, sock_id, c.fail)
                   ELSE install_measurement(w, ctx, inst, sock_id, c.fail)
         IN  RunScript(w1, ctx, inst, sock_id, Tail(script))

\* Hook `ctx` of instance `inst` runs: it makes the calls of `script` when it
\* is the hook `hk` the environment picked, none otherwise.
RunHook(w, ctx, inst, hk, script) ==
    RunScript(w, ctx, inst, w.algs[inst].info.sock_id, IF ctx = hk THEN script ELSE <<>>)

\* ------------------------------------------------------- instances
\* DatapathInfo as it would be with init_cwnd and mss taken from each other.
DatapathInfo_swapped(c) ==
    [sock_id |-> c.sid, init_cwnd |-> c.mss, mss |-> c.init_cwnd,
     src_ip |-> c.src_ip, src_port |-> c.src_port,
     dst_ip |-> c.dst_ip, dst_port |-> c.dst_port]

\* DatapathInfo as start() builds it from a Create message.
DatapathInfo(c) ==
    [sock_id |-> c.sid, init_cwnd |-> c.init_cwnd, mss |-> c.mss,
     src_ip |-> c.src_ip, src_port |-> c.src_port,
     dst_ip |-> c.dst_ip, dst_port |-> c.dst_port]

\* An instance right after U::create: what it was given and what hooks it
\* has seen since.
NewAlg(info) == [info |-> info, meas |-> <<>>, closes |-> 0, dropped |-> FALSE]

\* The value of type U goes out of scope: its destructor runs.
Drop(w, inst, hk, script) ==
    LET w1 == RunHook(w, "drop", inst, hk, script)
    IN  [w1 EXCEPT !.algs[inst].dropped = TRUE]

\* cfg.logger.as_ref().map(|log| debug!(log, ...)): the record the logger
\* gets when one is configured (without one the closure does not run, and
\* nothing else depends on it).
Debug(w, text, sid) ==
    [w EXCEPT !.logged = Append(@, [msg |-> text, sid |-> sid])]

\* ---------------------------------------------------- match arms
\* The Create arm as it would be if the construction sat in an else branch of
\* the removal.
HandleCr_elseCreate(w, c, hk, script) ==
    LET had == contains_key(w.flows, c.sid)
        id == Len(w.algs) + 1
    IN  IF had
        THEN Debug(Drop([w EXCEPT !.flows = remove(@, c.sid)], w.flows[c.sid], hk, script),
                   "re-creating already created flow", c.sid)
        ELSE LET w3 == Debug(w, "creating new flow", c.sid)
                 w4 == [w3 EXCEPT !.algs = Append(@, NewAlg(DatapathInfo(c)))]
                 w5 == RunHook(w4, "create", id, hk, script)
             IN  [w5 EXCEPT !.flows = insert(@, c.sid, id)]

\* The Create arm as it would be if it emptied the registry (clear()) instead
\* of removing the one sock_id.
HandleCr_clears(w, c, hk, script) ==
    LET gone == {w.flows[s] : s \in DOMAIN w.flows}
        w1 == [w EXCEPT !.flows = EmptyMap,
                        !.algs = [i \in DOMAIN w.algs |->
                                    IF i \in gone THEN [w.algs[i] EXCEPT !.dropped = TRUE]
                                    ELSE w.algs[i]]]
        w3 == Debug(w1, "creating new flow", c.sid)
        id == Len(w3.algs) + 1
        w4 == [w3 EXCEPT !.algs = Append(@, NewAlg(DatapathInfo(c)))]
        w5 == RunHook(w4, "create", id, hk, script)
    IN  [w5 EXCEPT !.flows = insert(@, c.sid, id)]

\* The Create arm as it would be if it closed the instance it replaces.
HandleCr_closesOld(w, c, hk, script) ==
    LET had == contains_key(w.flows, c.sid)
        w1 == IF had
              THEN Drop([w EXCEPT !.flows = remove(@, c.sid),
                                  !.algs[w.flows[c.sid]].closes = @ + 1],
                        w.flows[c.sid], hk, script)
              ELSE w
        w2 == IF had THEN Debug(w1, "re-creating already created flow", c.sid) ELSE w1
        w3 == Debug(w2, "creating new flow", c.sid)
        id == Len(w3.algs) + 1
        w4 == [w3 EXCEPT !.algs = Append(@, NewAlg(DatapathInfo(c)))]
        w5 == RunHook(w4, "create", id, hk, script)
    IN  [w5 EXCEPT !.flows = insert(@, c.sid, id)]

\* Msg::Cr(c)
HandleCr(w, c, hk, script) ==
    LET had == contains_key(w.flows, c.sid)
        w1 == IF had
              THEN Drop([w EXCEPT !.flows = remove(@, c.sid)], w.flows[c.sid], hk, script)
              ELSE w
        w2 == IF had THEN Debug(w1, "re-creating already created flow", c.sid) ELSE w1
        w3 == Debug(w2, "creating new flow", c.sid)
        id == Len(w3.algs) + 1
        w4 == [w3 EXCEPT !.algs = Append(@, NewAlg(DatapathInfo(c)))]
        w5 == RunHook(w4, "create", id, hk, script)
    IN  [w5 EXCEPT !.flows = insert(@, c.sid, id)]

\* The Measurement arm as it would be if a zero-field report closed the
\* instance in place (get_mut) instead of removing it.
HandleMs_closeKeeps(w, m, hk, script) ==
    IF contains_key(w.flows, m.sid)
    THEN IF m.num_fields = 0
         THEN LET alg == w.flows[m.sid]
                  w2 == [w EXCEPT !.algs[alg].closes = @ + 1]
              IN  RunHook(w2, "close", alg, hk, script)
         ELSE LET alg == w.flows[m.sid]
                  w1 == [w EXCEPT !.algs[alg].meas = Append(@, <<m.sid, m.fields>>)]
              IN  RunHook(w1, "measurement", alg, hk, script)
    ELSE Debug(w, "measurement for unknown flow", m.sid)

\* The Measurement arm as it would be if a zero-field report called close()
\* and dropped the instance but left its registry entry behind.
HandleMs_staleEntry(w, m, hk, script) ==
    IF contains_key(w.flows, m.sid)
    THEN IF m.num_fields = 0
         THEN LET alg == w.flows[m.sid]
                  w2 == [w EXCEPT !.algs[alg].closes = @ + 1]
                  w3 == RunHook(w2, "close", alg, hk, script)
              IN  Drop(w3, alg, hk, script)
         ELSE LET alg == w.flows[m.sid]
                  w1 == [w EXCEPT !.algs[alg].meas = Append(@, <<m.sid, m.fields>>)]
              IN  RunHook(w1, "measurement", alg, hk, script)
    ELSE Debug(w, "measurement for unknown flow", m.sid)

\* The Measurement arm as it would be if an unknown sock_id got an instance
\* on the fly (entry().or_insert_with()).
HandleMs_unknownInserts(w, m, hk, script) ==
    IF contains_key(w.flows, m.sid)
    THEN IF m.num_fields = 0
         THEN LET alg == w.flows[m.sid]
                  w1 == [w EXCEPT !.flows = remove(@, m.sid)]
                  w2 == [w1 EXCEPT !.algs[alg].closes = @ + 1]
                  w3 == RunHook(w2, "close", alg, hk, script)
              IN  Drop(w3, alg, hk, script)
         ELSE LET alg == w.flows[m.sid]
                  w1 == [w EXCEPT !.algs[alg].meas = Append(@, <<m.sid, m.fields>>)]
              IN  RunHook(w1, "measurement", alg, hk, script)
    ELSE LET id == Len(w.algs) + 1
             info == [sock_id |-> m.sid, init_cwnd |-> 0, mss |-> 0, src_ip |-> 0,
                      src_port |-> 0, dst_ip |-> 0, dst_port |-> 0]
         IN  [w EXCEPT !.algs = Append(@, NewAlg(info)), !.flows = insert(@, m.sid, id)]

\* The Measurement arm as it would be if the report were delivered before
\* the zero-field test.
HandleMs_measureFirst(w, m, hk, script) ==
    IF contains_key(w.flows, m.sid)
    THEN LET alg == w.flows[m.sid]
             w0 == [w EXCEPT !.algs[alg].meas = Append(@, <<m.sid, m.fields>>)]
         IN  IF m.num_fields = 0
             THEN LET w1 == [w0 EXCEPT !.flows = remove(@, m.sid)]
                      w2 == [w1 EXCEPT !.algs[alg].closes = @ + 1]
                      w3 == RunHook(w2, "close", alg, hk, script)
                  IN  Drop(w3, alg, hk, script)
             ELSE RunHook(w0, "measurement", alg, hk, script)
    ELSE Debug(w, "measurement for unknown flow", m.sid)

\* Msg::Ms(m)
HandleMs(w, m, hk, script) ==
    IF contains_key(w.flows, m.sid)
    THEN IF m.num_fields = 0
         THEN LET alg == w.flows[m.sid]
                  w1 == [w EXCEPT !.flows = remove(@, m.sid)]
                  w2 == [w1 EXCEPT !.algs[alg].closes = @ + 1]
                  w3 == RunHook(w2, "close", alg, hk, script)
              IN  Drop(w3, alg, hk, script)
         ELSE LET alg == w.flows[m.sid]
                  w1 == [w EXCEPT !.algs[alg].meas = Append(@, <<m.sid, m.fields>>)]
              IN  RunHook(w1, "measurement", alg, hk, script)
    ELSE Debug(w, "measurement for unknown flow", m.sid)

\* ------------------------------------------------------------ actions
Init ==
    /\ arrived = <<>>
    /\ head = 0
    /\ closed = FALSE
    /\ pc = "listen"
    /\ flows = EmptyMap
    /\ algs = <<>>
    /\ sent = <<>>
    /\ apiLog = <<>>
    /\ logged = <<>>
    /\ pure = Idle

\* The datapath writes a frame to the channel.
Deliver ==
    /\ ~closed
    /\ Len(arrived) < MaxFrames
    /\ \E f \in Frames : arrived' = Append(arrived, f)
    /\ UNCHANGED <<pure, head, closed, pc, flows, algs, sent, apiLog, logged>>

\* The receive side of the transport closes.
CloseRecv ==
    /\ ~closed
    /\ closed' = TRUE
    /\ UNCHANGED <<pure, arrived, head, pc, flows, algs, sent, apiLog, logged>>

\* The iterator yields the next frame.
HasNext == pc = "listen" /\ head < Len(arrived)
Cur == from_buf(arrived[head + 1])

\* The state the handlers of one iteration work on.
World == [flows |-> flows, algs |-> algs, sent |-> <<>>, apiLog |-> <<>>, logged |-> <<>>]

Commit(w) ==
    /\ flows' = w.flows
    /\ algs' = w.algs
    /\ sent' = w.sent
    /\ apiLog' = w.apiLog
    /\ logged' = w.logged

StepCreate ==
    /\ HasNext
    /\ Cur.kind = "Cr"
    /\ head' = head + 1
    /\ \E ch \in Choices(IF contains_key(flows, Cur.m.sid) THEN {"drop", "create"} ELSE {"create"}) :
          Commit(HandleCr(World, Cur.m, ch[1], ch[2]))
    /\ UNCHANGED <<pure, arrived, closed, pc>>

StepMeasurement ==
    /\ HasNext
    /\ Cur.kind = "Ms"
    /\ head' = head + 1
    /\ \E ch \in Choices(IF ~contains_key(flows, Cur.m.sid) THEN {}
                            ELSE IF Cur.m.num_fields = 0 THEN {"close", "drop"}
                            ELSE {"measurement"}) :
          Commit(HandleMs(World, Cur.m, ch[1], ch[2]))
    /\ UNCHANGED <<pure, arrived, closed, pc>>

\* The direction arm as it would be if it logged and went on.
StepDirection_continues ==
    /\ HasNext
    /\ Cur.kind \in {"Pt", "Fld"}
    /\ head' = head + 1
    /\ Commit(Debug(World, "unexpected message", Cur.m.sid))
    /\ UNCHANGED <<pure, arrived, closed, pc>>

\* Msg::Pt(_) | Msg::Fld(_) => panic!  The registry is left as the panic
\* found it; no hook is called on the way out.
StepDirection ==
    /\ HasNext
    /\ Cur.kind \in {"Pt", "Fld"}
    /\ head' = head + 1
    /\ pc' = "panic_direction"
    /\ Commit(World)
    /\ UNCHANGED <<pure, arrived, closed>>

\* The catch-all arm as it would be if every kind without a handler were a
\* direction violation.
StepOther_panics ==
    /\ HasNext
    /\ Cur.kind = "Other"
    /\ head' = head + 1
    /\ pc' = "panic_direction"
    /\ Commit(World)
    /\ UNCHANGED <<pure, arrived, closed>>

\* The catch-all arm as it would be with `break`: the loop ends and start()
\* reaches its final panic.
StepOther_break ==
    /\ HasNext
    /\ Cur.kind = "Other"
    /\ head' = head + 1
    /\ pc' = "panic_closed"
    /\ Commit(World)
    /\ UNCHANGED <<pure, arrived, closed>>

\* _ => continue
StepOther ==
    /\ HasNext
    /\ Cur.kind = "Other"
    /\ head' = head + 1
    /\ Commit(World)
    /\ UNCHANGED <<pure, arrived, closed, pc>>

\* The decode as it would be with unwrap(): an undecodable frame panics.
StepDecodeErr_unwrap ==
    /\ HasNext
    /\ ~Cur.ok
    /\ head' = head + 1
    /\ pc' = "panic_decode"
    /\ Commit(World)
    /\ UNCHANGED <<pure, arrived, closed>>

\* `if let Ok(msg)` does not match: the body is skipped.
StepDecodeErr ==
    /\ HasNext
    /\ ~Cur.ok
    /\ head' = head + 1
    /\ Commit(World)
    /\ UNCHANGED <<pure, arrived, closed, pc>>

\* The iterator ends: panic!("The IPC receive channel closed.")
StepClosed ==
    /\ pc = "listen"
    /\ head = Len(arrived)
    /\ closed
    /\ pc' = "panic_closed"
    /\ UNCHANGED <<pure, arrived, head, closed, flows, algs, sent, apiLog, logged>>

Step == StepCreate \/ StepMeasurement \/ StepDirection \/ StepOther \/ StepDecodeErr \/ StepClosed

Next == Deliver \/ CloseRecv \/ StepCreate \/ StepMeasurement \/ StepDirection
        \/ StepOther \/ StepDecodeErr \/ StepClosed

Spec == Init /\ [][Next]_vars

\* The loop is the only thread and the hooks are total: it keeps running.
FairSpec == Spec /\ WF_vars(Step)

\* ===================================================================
\* Properties
\* ===================================================================
\* The i-th frame the loop took, decoded.
Decoded(i) == from_buf(arrived[i])
IsCreate(i, s) == Decoded(i).kind = "Cr" /\ arrived[i].sid = s
IsMeasure(i, s) == Decoded(i).kind = "Ms" /\ arrived[i].sid = s /\ arrived[i].num_fields # 0
IsCloseMs(i, s) == Decoded(i).kind = "Ms" /\ arrived[i].sid = s /\ arrived[i].num_fields = 0

\* This step is a loop iteration: it takes frame head + 1.
Taking == pc = "listen" /\ head' = head + 1
Ids == 1..Len(algs)

\* C1: between iterations the registry's keys are exactly the sock_ids whose
\* most recent processed Create has no processed zero-field Measurement for
\* the same sock_id after it; each key maps to one live instance of its own,
\* built for that sock_id.
RegisteredSids ==
    {s \in Sids : \E i \in 1..head :
        /\ IsCreate(i, s)
        /\ \A j \in (i + 1)..head : ~IsCreate(j, s) /\ ~IsCloseMs(j, s)}

C1_RegistryKeys ==
    /\ DOMAIN flows = RegisteredSids
    /\ \A s \in DOMAIN flows :
          /\ flows[s] \in Ids
          /\ algs[flows[s]].info.sock_id = s
          /\ ~algs[flows[s]].dropped
          /\ \A t \in DOMAIN flows : flows[t] = flows[s] => t = s

\* Flow 1 was created and closed, flow 2 was created and is registered.
C1_Witness ==
    /\ head = 3
    /\ \E i \in 1..head : IsCloseMs(i, 1) /\ \E j \in 1..(i - 1) : IsCreate(j, 1)
    /\ DOMAIN flows = {2}

\* C2: a zero-field Measurement for a registered sock_id removes the instance
\* and calls its close() once, and not its measurement(); no instance ever has
\* close() called twice.
C2_CloseOnce ==
    [][/\ \A i \in 1..Len(algs') : algs'[i].closes <= 1
       /\ (Taking /\ Cur.kind = "Ms" /\ Cur.m.num_fields = 0
              /\ contains_key(flows, Cur.m.sid))
          => LET alg == flows[Cur.m.sid]
             IN  /\ ~contains_key(flows', Cur.m.sid)
                 /\ Len(algs') = Len(algs)
                 /\ algs'[alg].closes = algs[alg].closes + 1
                 /\ algs'[alg].meas = algs[alg].meas
                 /\ \A j \in Ids \ {alg} : algs'[j] = algs[j]]_vars

\* An instance that saw a measurement was then closed.
C2_Witness ==
    \E i \in Ids : algs[i].closes = 1 /\ algs[i].meas # <<>> /\ flows = EmptyMap

\* C3: a Create for a registered sock_id drops the old instance without
\* calling close() on it, now or later, constructs a new one and leaves the
\* registry with the new one only under that sock_id; two Creates in a row
\* for one sock_id give two constructions, no close call, one entry.
C3_Recreate ==
    /\ [](head = 2 /\ (\E s \in Sids : IsCreate(1, s) /\ IsCreate(2, s))
            => /\ Len(algs) = 2
               /\ \A i \in Ids : algs[i].closes = 0
               /\ Cardinality(DOMAIN flows) = 1
               /\ \A s \in DOMAIN flows : flows[s] = 2)
    /\ [][/\ \A i \in Ids : algs[i].dropped => algs'[i] = algs[i]
          /\ (Taking /\ Cur.kind = "Cr" /\ contains_key(flows, Cur.m.sid))
             => LET old == flows[Cur.m.sid]
                IN  /\ Len(algs') = Len(algs) + 1
                    /\ flows' = [flows EXCEPT ![Cur.m.sid] = Len(algs')]
                    /\ algs'[old] = [algs[old] EXCEPT !.dropped = TRUE]
                    /\ algs'[old].closes = 0
                    /\ algs'[Len(algs')] = NewAlg(DatapathInfo(Cur.m))]_vars

\* Flow 1 was created twice in a row; the first instance is gone, unclosed.
C3_Witness ==
    /\ head = 2 /\ IsCreate(1, 1) /\ IsCreate(2, 1)
    /\ Len(algs) = 2 /\ algs[1].dropped /\ algs[1].closes = 0 /\ flows[1] = 2

\* C4: a Measurement for a sock_id that is not registered calls no hook,
\* constructs nothing, leaves the registry alone and the loop goes on.
C4_UnknownFlow ==
    [][(Taking /\ Cur.kind = "Ms" /\ ~contains_key(flows, Cur.m.sid))
       => /\ flows' = flows
          /\ algs' = algs
          /\ apiLog' = <<>> /\ sent' = <<>>
          /\ pc' = "listen"]_vars

\* Measurements for unknown flows, with and without fields, were taken while
\* another flow is registered, and the loop is still listening.
C4_Witness ==
    /\ head = 3 /\ pc = "listen"
    /\ IsCreate(1, 2) /\ IsMeasure(2, 1) /\ IsCloseMs(3, 1)
    /\ DOMAIN flows = {2}

\* C5: a well-formed inbound Pattern or InstallFold ends the loop in a panic
\* whatever the registry holds; after it no frame is taken and no hook runs.
C5_DirectionViolation ==
    [][/\ (Taking /\ Cur.kind \in {"Pt", "Fld"}) => pc' = "panic_direction"
       /\ pc = "panic_direction"
          => /\ pc' = pc /\ head' = head
             /\ flows' = flows /\ algs' = algs
             /\ apiLog' = apiLog /\ sent' = sent /\ logged' = logged]_vars

\* The loop panicked with a flow registered, and a frame arrived after that.
C5_Witness ==
    /\ pc = "panic_direction" /\ flows # EmptyMap
    /\ head < Len(arrived) /\ Decoded(head).kind = "Fld"

\* C6: an undecodable frame is dropped: registry and instances are as before,
\* no hook runs, the loop goes on; what follows is processed from the very
\* state the frame found.
C6_DecodeError ==
    [][(Taking /\ ~Cur.ok)
       => /\ flows' = flows
          /\ algs' = algs
          /\ apiLog' = <<>> /\ sent' = <<>>
          /\ pc' = "listen" /\ closed' = closed /\ arrived' = arrived]_vars

\* An undecodable Create for flow 1 was taken, then a Measurement for flow 1
\* found it unknown.
C6_Witness ==
    /\ head = 3 /\ pc = "listen"
    /\ ~Decoded(2).ok /\ IsCreate(1, 2) /\ IsMeasure(3, 1)
    /\ DOMAIN flows = {2} /\ Len(algs) = 1 /\ algs[1].meas = <<>>

\* C7: the loop never returns; it leaves "listen" only by the panic after the
\* receive side closed and the iterator ended, or by the panic on a Pattern or
\* InstallFold; and while it has not panicked every delivered frame is
\* eventually taken.
C7_LoopForever ==
    /\ [](pc \in {"listen", "panic_direction", "panic_closed"})
    /\ [][(pc # pc')
          => /\ pc = "listen"
             /\ \/ pc' = "panic_closed" /\ closed /\ head = Len(arrived) /\ head' = head
                \/ pc' = "panic_direction" /\ head' = head + 1 /\ Cur.kind \in {"Pt", "Fld"}]_vars
    /\ \A k \in 1..MaxFrames : (Len(arrived) >= k) ~> (head >= k \/ pc # "listen")

\* A Create, an undecodable frame and a tag without a handler were taken and
\* the loop is still listening.
C7_Witness ==
    /\ head = 3 /\ pc = "listen" /\ ~closed
    /\ \E i, j, k \in 1..3 : Decoded(i).kind = "Cr" /\ ~Decoded(j).ok /\ Decoded(k).kind = "Other"

\* C8: each instance has had exactly the measurement() calls of the
\* non-zero-field Measurements for its sock_id that were taken while it was
\* registered, with their sid and fields, in arrival order.
CreatePositions == {p \in 1..head : Decoded(p).kind = "Cr"}
\* Where the Create that built instance i sits in the arrival order.
CreatedAt(i) ==
    CHOOSE p \in CreatePositions : Cardinality({q \in CreatePositions : q <= p}) = i
\* The first frame after position p that unregisters sock_id s, or head + 1.
RegisteredUntil(p, s) ==
    LET ends == {q \in (p + 1)..head : IsCreate(q, s) \/ IsCloseMs(q, s)}
    IN  IF ends = {} THEN head + 1 ELSE CHOOSE q \in ends : \A r \in ends : q <= r

RECURSIVE MeasuresIn(_, _, _)
MeasuresIn(lo, hi, s) ==
    IF lo > hi THEN <<>>
    ELSE (IF IsMeasure(lo, s) THEN <<(<<arrived[lo].sid, arrived[lo].fields>>)>> ELSE <<>>)
         \o MeasuresIn(lo + 1, hi, s)

C8_MeasurementsInOrder ==
    /\ Len(algs) = Cardinality(CreatePositions)
    /\ \A i \in Ids :
          LET p == CreatedAt(i)
              s == arrived[p].sid
          IN  /\ algs[i].info.sock_id = s
              /\ algs[i].meas = MeasuresIn(p + 1, RegisteredUntil(p, s) - 1, s)

\* Flow 1 got two different measurements, in the order they arrived.
C8_Witness ==
    /\ head = 3 /\ Len(algs) = 1
    /\ algs[1].meas = << <<1, <<100, 200>> >>, <<1, <<100>> >> >>

\* C9: a send_pattern or install_measurement call, from a hook or from a
\* destructor, failing or not, leaves the registry as it found it and hands
\* the transport at most one message.
C9_ApiLeavesRegistry ==
    \A k \in 1..Len(apiLog) :
        LET r == apiLog[k]
        IN  /\ r.flows1 = r.flows0
            /\ \/ r.sent1 = r.sent0
               \/ /\ Len(r.sent1) = Len(r.sent0) + 1
                  /\ SubSeq(r.sent1, 1, Len(r.sent0)) = r.sent0

\* Both calls were made by the measurement hook of a registered flow, and a
\* call was made while the registry was empty.
C9_Witness ==
    /\ Len(apiLog) = 2
    /\ apiLog[1].ctx = "measurement" /\ apiLog[1].flows0 # EmptyMap
    /\ apiLog[2].op = "send_pattern" /\ apiLog[2].ok
    /\ Len(sent) = 2

\* C10: install_measurement returns Err and sends nothing when compilation
\* fails, and returns Ok only when serialization and the send succeeded, the
\* InstallFold message being the one message sent.
C10_InstallMeasurement ==
    \A k \in 1..Len(apiLog) :
        LET r == apiLog[k]
        IN  r.op = "install_measurement"
            => /\ r.fail = "compile" => ~r.ok /\ r.sent1 = r.sent0
               /\ r.ok => /\ r.fail = "none"
                          /\ r.sent1 = Append(r.sent0, [typ |-> INSTALL_FOLD, sid |-> r.sid])
               /\ r.fail # "none" => ~r.ok

\* A create hook's install_measurement failed to compile.
C10_Witness ==
    \E k \in 1..Len(apiLog) :
        /\ apiLog[k].op = "install_measurement" /\ apiLog[k].ctx = "create"
        /\ apiLog[k].fail = "compile" /\ ~apiLog[k].ok /\ sent = <<>>

\* C11: a failed transport send inside send_pattern or install_measurement
\* comes back to the caller as Err, with nothing sent and the registry as it
\* was, and the iteration ends with the loop still listening.
C11_SendFailure ==
    [][Taking
       => \A k \in 1..Len(apiLog') :
             apiLog'[k].fail = "send"
             => /\ ~apiLog'[k].ok
                /\ apiLog'[k].flows1 = apiLog'[k].flows0
                /\ apiLog'[k].sent1 = apiLog'[k].sent0
                /\ pc' = "listen"]_vars

\* A measurement hook's send_pattern failed at the send; the flow is still
\* registered and the next frame is waiting.
C11_Witness ==
    /\ Len(apiLog) = 1 /\ apiLog[1].op = "send_pattern" /\ apiLog[1].fail = "send"
    /\ apiLog[1].ctx = "measurement" /\ ~apiLog[1].ok
    /\ pc = "listen" /\ DOMAIN flows = {1} /\ head < Len(arrived)

\* C15: each processed Create constructs one instance, after the registry
\* entry of any earlier instance for the sock_id is gone, gives it the
\* Create's seven fields as DatapathInfo and leaves the sock_id registered
\* with the new instance.
C15_CreateBuildsInstance ==
    [][(Taking /\ Cur.kind = "Cr")
       => LET c == arrived[head + 1]
              new == Len(algs) + 1
          IN  /\ Len(algs') = new
              /\ algs'[new].info.sock_id = c.sid
              /\ algs'[new].info.init_cwnd = c.init_cwnd
              /\ algs'[new].info.mss = c.mss
              /\ algs'[new].info.src_ip = c.src_ip
              /\ algs'[new].info.src_port = c.src_port
              /\ algs'[new].info.dst_ip = c.dst_ip
              /\ algs'[new].info.dst_port = c.dst_port
              /\ contains_key(flows', c.sid) /\ flows'[c.sid] = new
              /\ \A k \in 1..Len(apiLog') :
                    apiLog'[k].ctx = "create"
                    => apiLog'[k].inst = new /\ ~contains_key(apiLog'[k].flows0, c.sid)]_vars

\* Flow 1 was created with window 10 and again with window 20; the second
\* instance's create hook made a call.
C15_Witness ==
    /\ head = 2 /\ Len(algs) = 2
    /\ algs[1].info.init_cwnd = 10 /\ algs[2].info.init_cwnd = 20
    /\ algs[2].info.mss = 1448 /\ flows[1] = 2
    /\ \E k \in 1..Len(apiLog) : apiLog[k].ctx = "create"

\* C16: a frame that decodes to a kind other than Create, Measurement,
\* Pattern and InstallFold is discarded: registry and instances unchanged, no
\* hook, and the loop goes on.
C16_OtherKindDiscarded ==
    [][(Taking /\ Cur.ok /\ Cur.kind \notin {"Cr", "Ms", "Pt", "Fld"})
       => /\ flows' = flows
          /\ algs' = algs
          /\ apiLog' = <<>> /\ sent' = <<>>
          /\ pc' = "listen"]_vars

\* A reserved-tag frame was taken while flow 1 was registered, and the frame
\* after it was processed.
C16_Witness ==
    /\ head = 3 /\ pc = "listen"
    /\ IsCreate(1, 1) /\ arrived[2].typ = RESERVED_TAG /\ Decoded(2).kind = "Other"
    /\ IsMeasure(3, 1) /\ Len(algs[1].meas) = 1

C18_DecodeErrorLogged ==
    [][(Taking /\ ~Cur.ok) => logged' # <<>>]_vars

\* C19: an instance that was closed or replaced never sees a hook again and
\* makes no further call; a Measurement for a sock_id whose latest instance
\* was closed is handled as one for an unknown flow.
ClosedFlow(s) ==
    \E i \in Ids :
        /\ algs[i].info.sock_id = s /\ algs[i].closes > 0
        /\ \A j \in Ids : j > i => algs[j].info.sock_id # s

C19_NoHookAfterEnd ==
    [][/\ \A i \in Ids :
             (algs[i].closes > 0 \/ algs[i].dropped)
             => /\ algs'[i] = algs[i]
                /\ \A s \in DOMAIN flows' : flows'[s] # i
                /\ Taking => \A k \in 1..Len(apiLog') : apiLog'[k].inst # i
       /\ (Taking /\ Cur.kind = "Ms" /\ ClosedFlow(Cur.m.sid))
          => /\ flows' = flows /\ algs' = algs
             /\ apiLog' = <<>> /\ sent' = <<>>
             /\ logged' = <<[msg |-> "measurement for unknown flow", sid |-> Cur.m.sid]>>
             /\ pc' = "listen"]_vars

\* Flow 1 was created and closed, and a Measurement with fields came after.
C19_Witness ==
    /\ head = 3 /\ IsCreate(1, 1) /\ IsCloseMs(2, 1) /\ IsMeasure(3, 1)
    /\ algs[1].closes = 1 /\ algs[1].meas = <<>> /\ flows = EmptyMap

\* C20: a Create or Measurement for one sock_id leaves the entries of all
\* other sock_ids as they were and calls no hook of their instances.
C20_OtherFlowsUntouched ==
    [][(Taking /\ Cur.kind \in {"Cr", "Ms"})
       => \A t \in (DOMAIN flows) \ {Cur.m.sid} :
             /\ contains_key(flows', t) /\ flows'[t] = flows[t]
             /\ algs'[flows[t]] = algs[flows[t]]
             /\ \A k \in 1..Len(apiLog') : apiLog'[k].inst # flows[t]]_vars

\* With flows 1 and 2 registered, flow 2 was created again; flow 1 is as
\* before.
C20_Witness ==
    /\ head = 3 /\ IsCreate(1, 2) /\ IsCreate(2, 1) /\ IsCreate(3, 2)
    /\ DOMAIN flows = {1, 2} /\ flows[1] = 2 /\ flows[2] = 3
    /\ ~algs[2].dropped

\* ===================================================================
\* Measurement::get_field and the UpdateField serializer
\* ===================================================================
\* Longest field vector of a report or of an UpdateField message.
MaxFields == 2

\* lang::Reg, without the type it carries (no code here looks at it).
Reg(kind, idx) == [kind |-> kind, idx |-> idx]
RegKinds == {"Perm", "Implicit", "Tmp", "Const"}

\* Option<u64>
None == [some |-> FALSE, val |-> 0]
Some(v) == [some |-> TRUE, val |-> v]

\* get_field as it would be if implicit registers were indexed too.
get_field_anyReg(fields, field, sc) ==
    IF field \notin DOMAIN sc THEN None
    ELSE LET r == sc[field]
         IN  IF r.kind \in {"Perm", "Implicit"}
             THEN IF r.idx >= Len(fields) THEN None ELSE Some(fields[r.idx + 1])
             ELSE None

\* Measurement::get_field
get_field(fields, field, sc) ==
    IF field \notin DOMAIN sc THEN None
    ELSE LET r == sc[field]
         IN  IF r.kind = "Perm"
             THEN IF r.idx >= Len(fields) THEN None ELSE Some(fields[r.idx + 1])
             ELSE None

\* u32_to_u8s, u64_to_u8s: n bytes, least significant first.  (The values
\* drawn below all fit their width, so no reduction modulo 2^32 or 2^64 is
\* written out.)
RECURSIVE LE(_, _)
LE(n, v) == IF n = 0 THEN <<>> ELSE <<v % 256>> \o LE(n - 1, v \div 256)
u32_to_u8s(v) == LE(4, v)
u64_to_u8s(v) == LE(8, v)

\* Bytes of the type tag and of the flow id that every message starts with.
HDR_LENGTH == 8
\* The discriminant byte of Reg::Implicit.
IMPLICIT_REG == 2

\* Reg::into_iter: discriminant, then the index.
RegBytes(r) == <<IMPLICIT_REG>> \o u32_to_u8s(r.idx)

\* AsRawMsg::get_hdr for update_field::Msg
get_hdr(m) == <<UPDATE_FIELD, HDR_LENGTH + 4 + m.num_fields * 13, m.sid>>

\* AsRawMsg::get_u32s for update_field::Msg
get_u32s(m) == u32_to_u8s(m.num_fields)

\* AsRawMsg::get_bytes for update_field::Msg
RECURSIVE get_bytes_from(_, _)
get_bytes_from(fields, i) ==
    IF i > Len(fields) THEN <<>>
    ELSE RegBytes(fields[i][1]) \o u64_to_u8s(fields[i][2]) \o get_bytes_from(fields, i + 1)
get_bytes(m) == get_bytes_from(m.fields, 1)

\* serialize::serialize: the header get_hdr describes, then the two parts.
serialize(m) ==
    LET hdr == get_hdr(m)
    IN  <<hdr[1], 0>> \o LE(2, hdr[2] % (2 ^ 16)) \o u32_to_u8s(hdr[3])
        \o get_u32s(m) \o get_bytes(m)

\* ------------------------------------------------------------ inputs
ReportVals == {5, 17}
Names == {"acked", "rtt", "missing"}
Declared == {"acked", "rtt"}
ScopeRegs == {Reg("Perm", i) : i \in 0..MaxFields}
              \cup {Reg(k, 0) : k \in RegKinds \ {"Perm"}}
Scopes == UNION {[d -> ScopeRegs] : d \in SUBSET Declared}
SeqsUpTo(S, n) == UNION {[1..k -> S] : k \in 0..n}

GetFieldInputs ==
    {[op |-> "get_field", done |-> FALSE, fields |-> f, name |-> n, scope |-> sc] :
        f \in SeqsUpTo(ReportVals, MaxFields), n \in Names, sc \in Scopes}

UpdateSids == {1, 258}
UpdateEntries == {<<Reg("Implicit", 4), 42>>, <<Reg("Implicit", 300), 16777217>>}
UpdateMsgs ==
    {[sid |-> s, num_fields |-> n, fields |-> f] :
        s \in UpdateSids, n \in 0..MaxFields, f \in SeqsUpTo(UpdateEntries, MaxFields)}
SerializeInputs == {[op |-> "serialize", done |-> FALSE, msg |-> m] : m \in UpdateMsgs}

\* ------------------------------------------------------------ actions
PureInit ==
    /\ arrived = <<>> /\ head = 0 /\ closed = FALSE /\ pc = "listen"
    /\ flows = EmptyMap /\ algs = <<>>
    /\ sent = <<>> /\ apiLog = <<>> /\ logged = <<>>
    /\ pure \in GetFieldInputs \cup SerializeInputs

CallGetField ==
    /\ pure.op = "get_field" /\ ~pure.done
    /\ pure' = [op |-> "get_field", done |-> TRUE, fields |-> pure.fields,
                name |-> pure.name, scope |-> pure.scope,
                out |-> get_field(pure.fields, pure.name, pure.scope)]
    /\ UNCHANGED <<arrived, head, closed, pc, flows, algs, sent, apiLog, logged>>

CallSerialize ==
    /\ pure.op = "serialize" /\ ~pure.done
    /\ pure' = [op |-> "serialize", done |-> TRUE, msg |-> pure.msg,
                out |-> serialize(pure.msg)]
    /\ UNCHANGED <<arrived, head, closed, pc, flows, algs, sent, apiLog, logged>>

PureNext == CallGetField \/ CallSerialize

PureSpec == PureInit /\ [][PureNext]_vars

\* ------------------------------------------------------- properties
\* The n-byte little-endian number at 1-based position pos of b.
RECURSIVE ReadLE(_, _, _)
ReadLE(b, pos, n) == IF n = 0 THEN 0 ELSE b[pos] + 256 * ReadLE(b, pos + 1, n - 1)

\* C12: get_field gives Some(fields[i]) exactly when the scope maps the name
\* to Perm(i, _) with i below the number of fields, None for a name that is
\* absent, a register that is not permanent or an index past the report; the
\* call sends nothing and leaves the loop's state alone.
C12_GetField ==
    (pure.op = "get_field" /\ pure.done)
    => LET k == Len(pure.fields)
           hit == /\ pure.name \in DOMAIN pure.scope
                  /\ pure.scope[pure.name].kind = "Perm"
                  /\ pure.scope[pure.name].idx < k
       IN  /\ hit => pure.out = Some(pure.fields[pure.scope[pure.name].idx + 1])
           /\ ~hit => pure.out = None
           /\ sent = <<>> /\ apiLog = <<>> /\ flows = EmptyMap /\ algs = <<>>

\* acked and rtt are permanents 0 and 1; the report [5, 17] gives rtt = 17.
C12_Witness ==
    /\ pure.op = "get_field" /\ pure.done
    /\ pure.fields = <<5, 17>> /\ pure.name = "rtt"
    /\ DOMAIN pure.scope = Declared
    /\ pure.scope["acked"] = Reg("Perm", 0) /\ pure.scope["rtt"] = Reg("Perm", 1)
    /\ pure.out = Some(17)

\* C13: bytes 2-3 of a serialized UpdateField message, read little-endian,
\* are the length of the buffer, which is 12 plus 13 per entry of fields,
\* whether or not num_fields is the number of entries.
C13_FramingLength ==
    (pure.op = "serialize" /\ pure.done)
    => /\ Len(pure.out) = 4 + 4 + 4 + 13 * Len(pure.msg.fields)
       /\ ReadLE(pure.out, 3, 2) = Len(pure.out)

\* The layout of a serialized UpdateField message apart from the length
\* field: tag, reserved byte, sid, num_fields, then Reg and value per entry.
UpdateFieldBody ==
    (pure.op = "serialize" /\ pure.done)
    => LET b == pure.out
           m == pure.msg
       IN  /\ Len(b) = 12 + 13 * Len(m.fields)
           /\ b[1] = 3 /\ b[2] = 0
           /\ ReadLE(b, 5, 4) = m.sid
           /\ ReadLE(b, 9, 4) = m.num_fields
           /\ \A i \in 1..Len(m.fields) :
                 LET at == 12 + 13 * (i - 1)
                 IN  /\ b[at + 1] = 2
                     /\ ReadLE(b, at + 2, 4) = m.fields[i][1].idx
                     /\ ReadLE(b, at + 6, 8) = m.fields[i][2]
           /\ m = [sid |-> 1, num_fields |-> 1, fields |-> << <<Reg("Implicit", 4), 42>> >>]
              => b = <<3, 0, 25, 0, 1, 0, 0, 0, 1, 0, 0, 0,
                       2, 4, 0, 0, 0, 42, 0, 0, 0, 0, 0, 0, 0>>

\* C14: a serialized UpdateField message is tag 3, reserved 0, the total
\* length as u16 LE, sid and num_fields as u32 LE, then per entry the 5-byte
\* Reg and the value as u64 LE; the golden message gives the 25-byte vector.
C14_UpdateFieldLayout ==
    /\ UpdateFieldBody
    /\ (pure.op = "serialize" /\ pure.done) => ReadLE(pure.out, 3, 2) = Len(pure.out)

\* What holds of the length field: it is 12 + 13 * num_fields, the length of
\* the buffer exactly when num_fields is the number of entries.
DeclaredLength ==
    (pure.op = "serialize" /\ pure.done)
    => /\ ReadLE(pure.out, 3, 2) = 12 + 13 * pure.msg.num_fields
       /\ (pure.msg.num_fields = Len(pure.msg.fields))
          <=> (ReadLE(pure.out, 3, 2) = Len(pure.out))

====
